---- MODULE Spec2Model ----
(***************************************************************************)
(* Model of the tax calculator: the Express handler POST /calculate-tax    *)
(* with its three calculation functions (calculateTax,                     *)
(* calculateStandardDeduction, calculateEITC), and the React form          *)
(* component that submits to it.                                           *)
(*                                                                         *)
(* Numbers.  Request amounts are whole dollars (the request strings of the *)
(* model hold no decimal point), for which the handler's double arithmetic *)
(* is exact up to an error far below half a cent.  calculateTax returns    *)
(* cents.  The amounts of a response are in units of 1/10000 dollar, so    *)
(* that the factors 0.1413 and 0.20 are exact.                             *)
(***************************************************************************)
EXTENDS Integers, Sequences, FiniteSets, TLC

VARIABLES
  pc,        \* server: "idle", "recv" (request parsed by the middleware), "sent"
  req,       \* server: req.body of the request being handled
  res,       \* server: the response sent for it
  tIncome, tStatus, tDeductions, tTax, tSteps,   \* calls of calculateTax
  eIncome, eStatus, eChildren, eCredit, eCalled, \* calls of calculateEITC
  formData, result, loading, error,              \* form component state
  calls      \* form component: the invocations of the async calculateTax
             \* that have not finished, each with its position (at), the
             \* request body it sent, the response it received and, as
             \* history, the result state it started from (before)

serverVars == <<pc, req, res>>
taxVars    == <<tIncome, tStatus, tDeductions, tTax, tSteps>>
eitcVars   == <<eIncome, eStatus, eChildren, eCredit, eCalled>>
uiVars     == <<formData, result, loading, error, calls>>
vars       == <<serverVars, taxVars, eitcVars, uiVars>>

Max(a, b) == IF a >= b THEN a ELSE b
Min(a, b) == IF a <= b THEN a ELSE b

(***************************************************************************)
(* JavaScript values of a request body.                                    *)
(***************************************************************************)
Undefined == [t |-> "undefined"]
Str(s)    == [t |-> "string", s |-> s]
Num(n)    == [t |-> "number", n |-> n]
Bool(b)   == [t |-> "boolean", b |-> b]

\* ToBoolean, as applied by the operator ! of the validation.
Truthy(v) ==
  CASE v.t = "undefined" -> FALSE
    [] v.t = "string"    -> Len(v.s) > 0
    [] v.t = "number"    -> v.n # 0
    [] v.t = "boolean"   -> v.b

NaN == [nan |-> TRUE, n |-> 0]
Number(n) == [nan |-> FALSE, n |-> n]

Digits == {"0", "1", "2", "3", "4", "5", "6", "7", "8", "9"}
DigitValue(c) ==
  CASE c = "0" -> 0 [] c = "1" -> 1 [] c = "2" -> 2 [] c = "3" -> 3
    [] c = "4" -> 4 [] c = "5" -> 5 [] c = "6" -> 6 [] c = "7" -> 7
    [] c = "8" -> 8 [] c = "9" -> 9

\* Leading white space is skipped by parseFloat and parseInt.
RECURSIVE TrimStart(_)
TrimStart(s) ==
  IF Len(s) > 0 /\ Head(s) = " " THEN TrimStart(Tail(s)) ELSE s

\* The value of the longest prefix of decimal digits of s, continuing acc.
RECURSIVE DigitsPrefix(_, _)
DigitsPrefix(s, acc) ==
  IF Len(s) > 0 /\ Head(s) \in Digits
    THEN DigitsPrefix(Tail(s), 10 * acc + DigitValue(Head(s)))
    ELSE acc

\* A string is parsed as: white space, an optional sign, decimal digits;
\* whatever follows the digits is ignored, and no digit at all gives NaN.
ParseString(s) ==
  LET t == TrimStart(s)
      signed == Len(t) > 0 /\ Head(t) \in {"-", "+"}
      u == IF signed THEN Tail(t) ELSE t
  IN  IF Len(u) = 0 \/ Head(u) \notin Digits THEN NaN
      ELSE IF signed /\ Head(t) = "-" THEN Number(0 - DigitsPrefix(u, 0))
      ELSE Number(DigitsPrefix(u, 0))

\* parseFloat(v) and parseInt(v): the argument is converted to a string
\* first, so a whole number parses to itself and undefined, true and false
\* to NaN.
parseFloat(v) ==
  CASE v.t = "string" -> ParseString(v.s)
    [] v.t = "number" -> Number(v.n)
    [] OTHER          -> NaN

parseInt(v) == parseFloat(v)

\* x || 0
OrZero(x) == IF x.nan \/ x.n = 0 THEN 0 ELSE x.n

(***************************************************************************)
(* Tax calculation functions.                                              *)
(***************************************************************************)
\* Rates are in thousandths (0.10 is 100), so amount * rate is in mills
\* (1/1000 dollar).  The last bracket of each table has max: Infinity.
Bracket(lo, hi, rate) ==
  [min |-> lo, max |-> hi, rate |-> rate, unbounded |-> FALSE]
LastBracket(lo, rate) ==
  [min |-> lo, max |-> lo, rate |-> rate, unbounded |-> TRUE]

taxBrackets ==
  [single  |-> << Bracket(0, 11000, 100),
                  Bracket(11001, 44725, 120),
                  Bracket(44726, 95375, 220),
                  Bracket(95376, 182050, 240),
                  Bracket(182051, 231250, 320),
                  Bracket(231251, 578125, 350),
                  LastBracket(578126, 370) >>,
   married |-> << Bracket(0, 22000, 100),
                  Bracket(22001, 89450, 120),
                  Bracket(89451, 190750, 220),
                  Bracket(190751, 364200, 240),
                  Bracket(364201, 462500, 320),
                  Bracket(462501, 693750, 350),
                  LastBracket(693751, 370) >>]

\* Names every object literal inherits from Object.prototype: table[name]
\* finds a function (for __proto__: an object) there, which is truthy, so
\* the "|| table.single" fallback is not taken.
ObjectPrototypeKeys ==
  {"constructor", "toString", "toLocaleString", "valueOf", "hasOwnProperty",
   "isPrototypeOf", "propertyIsEnumerable", "__proto__"}

\* taxBrackets[filingStatus] || taxBrackets.single, when the lookup does
\* not find an inherited property.
BracketsFor(filingStatus) ==
  IF filingStatus \in DOMAIN taxBrackets
    THEN taxBrackets[filingStatus]
    ELSE taxBrackets.single

\* bracket.max - bracket.min + 1 and Math.min(remainingIncome, that)
TaxableAtThisBracket(remainingIncome, bracket) ==
  IF bracket.unbounded
    THEN remainingIncome
    ELSE Min(remainingIncome, bracket.max - bracket.min + 1)

\* The loop with "totalTax = ..." written for "totalTax += ...".
RECURSIVE WalkBrackets_Overwrite(_, _, _, _)
WalkBrackets_Overwrite(brackets, k, remainingIncome, totalTax) ==
  IF k > Len(brackets) \/ remainingIncome <= 0 THEN totalTax
  ELSE LET taxableAtThisBracket ==
             TaxableAtThisBracket(remainingIncome, brackets[k])
       IN  IF taxableAtThisBracket > 0
             THEN WalkBrackets_Overwrite(brackets, k + 1,
                                         remainingIncome - taxableAtThisBracket,
                                         taxableAtThisBracket * brackets[k].rate)
             ELSE WalkBrackets_Overwrite(brackets, k + 1, remainingIncome, totalTax)

\* The for loop of calculateTax from bracket k on: totalTax in mills.
RECURSIVE WalkBrackets(_, _, _, _)
WalkBrackets(brackets, k, remainingIncome, totalTax) ==
  IF k > Len(brackets) \/ remainingIncome <= 0 THEN totalTax
  ELSE LET taxableAtThisBracket ==
             TaxableAtThisBracket(remainingIncome, brackets[k])
       IN  IF taxableAtThisBracket > 0
             THEN WalkBrackets(brackets, k + 1,
                               remainingIncome - taxableAtThisBracket,
                               totalTax + taxableAtThisBracket * brackets[k].rate)
             ELSE WalkBrackets(brackets, k + 1, remainingIncome, totalTax)

\* Math.round(totalTax * 100): mills to cents, a half rounded up.
RoundToCents(mills) == (mills + 5) \div 10

\* for (const bracket of brackets) throws a TypeError when brackets is the
\* inherited function or object.
calculateTaxThrows(filingStatus) == filingStatus \in ObjectPrototypeKeys

\* calculateTax(income, filingStatus, deductions), dollars in, cents out.
calculateTax(income, filingStatus, deductions) ==
  LET brackets == BracketsFor(filingStatus)
      taxableIncome == Max(0, income - deductions)
  IN  RoundToCents(WalkBrackets(brackets, 1, taxableIncome, 0))

standardDeductions ==
  [single |-> 13850, married |-> 27700, marriedSeparate |-> 13850,
   headOfHousehold |-> 20800]

\* The senior supplement granted only above 65.
calculateStandardDeduction_Over65(filingStatus, age) ==
  LET deduction == IF filingStatus \in DOMAIN standardDeductions
                     THEN standardDeductions[filingStatus]
                     ELSE standardDeductions.single
  IN  IF age > 65
        THEN deduction + (IF filingStatus = "married" THEN 1500 ELSE 1850)
        ELSE deduction

\* calculateStandardDeduction(filingStatus, age), in dollars.  (For a name
\* in ObjectPrototypeKeys the code computes a non-number here; the handler
\* then fails in calculateTax, so no response ever carries that value.)
calculateStandardDeduction(filingStatus, age) ==
  LET deduction == IF filingStatus \in DOMAIN standardDeductions
                     THEN standardDeductions[filingStatus]
                     ELSE standardDeductions.single
  IN  IF age >= 65
        THEN deduction + (IF filingStatus = "married" THEN 1500 ELSE 1850)
        ELSE deduction

eitcLimits ==
  [c \in 0..3 |->
     CASE c = 0 -> [single |-> 17640, married |-> 23260, credit |-> 600]
       [] c = 1 -> [single |-> 46560, married |-> 52918, credit |-> 3995]
       [] c = 2 -> [single |-> 51567, married |-> 58250, credit |-> 6604]
       [] c = 3 -> [single |-> 55529, married |-> 62044, credit |-> 7430]]

\* The credit denied at the ceiling itself.
calculateEITC_AtCeiling(income, filingStatus, children) ==
  LET childCount == Min(children, 3)
  IN  IF childCount \notin DOMAIN eitcLimits THEN 0
      ELSE LET limits == eitcLimits[childCount]
               incomeLimit == IF filingStatus = "married"
                                THEN limits.married ELSE limits.single
           IN  IF income >= incomeLimit THEN 0 ELSE limits.credit

\* calculateEITC(income, filingStatus, children), in dollars.
calculateEITC(income, filingStatus, children) ==
  LET childCount == Min(children, 3)
  IN  IF childCount \notin DOMAIN eitcLimits THEN 0
      ELSE LET limits == eitcLimits[childCount]
               incomeLimit == IF filingStatus = "married"
                                THEN limits.married ELSE limits.single
           IN  IF income > incomeLimit THEN 0 ELSE limits.credit

(***************************************************************************)
(* POST /calculate-tax                                                     *)
(***************************************************************************)
\* Response amounts are in units of 1/10000 dollar.
Dollars(d) == d * 10000
Cents(c)   == c * 100

\* if (!filingStatus || !income) return res.status(400)
MissingRequired(body_) == ~Truthy(body_.filingStatus) \/ ~Truthy(body_.income)

\* The body of the try block for a request that passed the validation and
\* whose calculateTax call returns: the result object.
TaxResult(b) ==
  LET filingStatus == b.filingStatus.s
      totalIncome == OrZero(parseFloat(b.income))
      userAge == OrZero(parseInt(b.age))
      numDependents == OrZero(parseInt(b.dependents))
      itemizedDeductionAmount == OrZero(parseFloat(b.itemizedDeductions))
      additionalIncome ==
        [w2 |-> OrZero(parseFloat(b.w2Income)),
         selfEmployment |-> OrZero(parseFloat(b.selfEmploymentIncome)),
         interest |-> OrZero(parseFloat(b.interestIncome)),
         dividends |-> OrZero(parseFloat(b.dividendIncome)),
         capitalGains |-> OrZero(parseFloat(b.capitalGains)),
         other |-> OrZero(parseFloat(b.otherIncome))]
      totalGrossIncome ==
        totalIncome + additionalIncome.w2 + additionalIncome.selfEmployment
        + additionalIncome.interest + additionalIncome.dividends
        + additionalIncome.capitalGains + additionalIncome.other
      standardDeduction == calculateStandardDeduction(filingStatus, userAge)
      itemizing == b.useStandardDeduction = Str("false")
      deductionAmount ==
        IF itemizing THEN Max(itemizedDeductionAmount, standardDeduction)
                     ELSE standardDeduction
      federalTax == Cents(calculateTax(totalGrossIncome, filingStatus, deductionAmount))
      eitc == Dollars(calculateEITC(totalGrossIncome, filingStatus, numDependents))
      selfEmploymentTax == additionalIncome.selfEmployment * 1413
      totalTaxLiability == federalTax + selfEmploymentTax - eitc
      estimatedWithholding == additionalIncome.w2 * 2000
      refundOrOwed == estimatedWithholding - totalTaxLiability
  IN  [status |-> 200,
       filingStatus |-> filingStatus,
       age |-> userAge,
       dependents |-> numDependents,
       totalGrossIncome |-> Dollars(totalGrossIncome),
       primary |-> Dollars(totalIncome),
       w2 |-> Dollars(additionalIncome.w2),
       selfEmployment |-> Dollars(additionalIncome.selfEmployment),
       interest |-> Dollars(additionalIncome.interest),
       dividends |-> Dollars(additionalIncome.dividends),
       capitalGains |-> Dollars(additionalIncome.capitalGains),
       other |-> Dollars(additionalIncome.other),
       standardDeduction |-> Dollars(standardDeduction),
       itemizedDeductions |-> Dollars(itemizedDeductionAmount),
       deductionUsed |-> Dollars(deductionAmount),
       deductionType |-> IF itemizing THEN "itemized" ELSE "standard",
       taxableIncome |-> Dollars(Max(0, totalGrossIncome - deductionAmount)),
       federalIncomeTax |-> federalTax,
       selfEmploymentTax |-> selfEmploymentTax,
       earnedIncomeCredit |-> eitc,
       totalTaxLiability |-> Max(0, totalTaxLiability),
       estimatedWithholding |-> estimatedWithholding,
       amount |-> refundOrOwed,
       type |-> IF refundOrOwed >= 0 THEN "refund" ELSE "owed"]

ValidationError == [status |-> 400]
InternalError   == [status |-> 500]
NoResponse      == [status |-> 0]
NoRequest       == [filingStatus |-> Undefined]

\* Request bodies the clients of the model send.
FilingStatusValues ==
  {Undefined, Str(""), Str("single"), Str("married"), Str("marriedSeparate"),
   Str("headOfHousehold"), Str("widowed"), Str("constructor")}
IncomeValues ==
  {Undefined, Str(""), Str("0"), Num(0), Str("50000"), Str("12000")}
AgeValues == {Undefined, Str("65")}
DependentsValues == {Undefined, Str("-1"), Str("2"), Str("5")}
ItemizedValues == {Undefined, Str("5000"), Str("30000")}
ElectionValues == {Undefined, Str("false"), Bool(FALSE)}
W2Values == {Undefined, Str("30000"), Str("-1000")}
SelfEmploymentValues == {Undefined, Str("1000")}
InterestValues == {Undefined, Str("abc")}
DividendValues == {Undefined, Str("250")}
CapitalGainsValues == {Undefined, Str("-300")}

RequestBodies ==
  [filingStatus : FilingStatusValues,
   income : IncomeValues,
   age : AgeValues,
   dependents : DependentsValues,
   itemizedDeductions : ItemizedValues,
   useStandardDeduction : ElectionValues,
   w2Income : W2Values,
   selfEmploymentIncome : SelfEmploymentValues,
   interestIncome : InterestValues,
   dividendIncome : DividendValues,
   capitalGains : CapitalGainsValues,
   otherIncome : {Undefined}]

ServerIdle == pc = "idle" /\ req = NoRequest /\ res = NoResponse

\* A request arrives and the middleware has filled req.body.
Receive ==
  /\ pc = "idle"
  /\ \E b \in RequestBodies : req' = b
  /\ pc' = "recv"
  /\ res' = NoResponse

\* The handler returns 400 from the validation.
Reject ==
  /\ pc = "recv"
  /\ MissingRequired(req)
  /\ res' = ValidationError
  /\ pc' = "sent"
  /\ UNCHANGED req

\* The handler computes the result and sends it.
Respond ==
  /\ pc = "recv"
  /\ ~MissingRequired(req)
  /\ ~calculateTaxThrows(req.filingStatus.s)
  /\ res' = TaxResult(req)
  /\ pc' = "sent"
  /\ UNCHANGED req

\* calculateTax throws; the catch block sends 500.
Fail ==
  /\ pc = "recv"
  /\ ~MissingRequired(req)
  /\ calculateTaxThrows(req.filingStatus.s)
  /\ res' = InternalError
  /\ pc' = "sent"
  /\ UNCHANGED req

\* The request is over; nothing of it is kept.
Finish ==
  /\ pc = "sent"
  /\ pc' = "idle"
  /\ req' = NoRequest
  /\ res' = NoResponse

TaxIdle ==
  tIncome = 0 /\ tStatus = "single" /\ tDeductions = 0 /\ tTax = 0 /\ tSteps = 0
EitcIdle ==
  eIncome = 0 /\ eStatus = "single" /\ eChildren = 0 /\ eCredit = 0
  /\ eCalled = FALSE
UiIdle ==
  /\ formData = [filingStatus |-> "single", income |-> "", age |-> "",
                 dependents |-> "0"]
  /\ result = NoResponse
  /\ loading = FALSE
  /\ error = ""
  /\ calls = << >>

Init == ServerIdle /\ TaxIdle /\ EitcIdle /\ UiIdle
Next ==
  \/ Receive /\ UNCHANGED <<taxVars, eitcVars, uiVars>>
  \/ Reject /\ UNCHANGED <<taxVars, eitcVars, uiVars>>
  \/ Respond /\ UNCHANGED <<taxVars, eitcVars, uiVars>>
  \/ Fail /\ UNCHANGED <<taxVars, eitcVars, uiVars>>
  \/ Finish /\ UNCHANGED <<taxVars, eitcVars, uiVars>>
Spec == Init /\ [][Next]_vars

(***************************************************************************)
(* Properties of the handler (specification Spec).                         *)
(***************************************************************************)
Accepted == pc = "sent" /\ res.status = 200

\* C1: in every accepted response, refundOrOwed.amount equals
\* estimatedWithholding minus the reported totalTaxLiability, which is
\* max(0, federalTax + selfEmploymentTax - eitc); so when the credit exceeds
\* the two taxes the amount is the withholding exactly.
C1_AmountIsWithholdingMinusLiability ==
  Accepted =>
    /\ res.totalTaxLiability =
         Max(0, res.federalIncomeTax + res.selfEmploymentTax - res.earnedIncomeCredit)
    /\ res.estimatedWithholding = (res.w2 * 20) \div 100
    /\ res.amount = res.estimatedWithholding - res.totalTaxLiability

\* C2: a single filer with taxable income T above 11000 and at most 44725
\* dollars is charged 10% of the first 11000 plus 12% of T - 11000.
C2_SingleSecondBracket ==
  (Accepted /\ res.filingStatus = "single"
     /\ res.taxableIncome > Dollars(11000) /\ res.taxableIncome <= Dollars(44725)) =>
    res.federalIncomeTax =
      Dollars(1100) + (12 * (res.taxableIncome - Dollars(11000))) \div 100

\* C4: the credit of an accepted response is the credit for the dependent
\* count clamped to 0..3, for counts below 0 and above 3 alike.
C4_DependentsClamped ==
  Accepted =>
    res.earnedIncomeCredit =
      Dollars(calculateEITC(res.totalGrossIncome \div 10000, res.filingStatus,
                            Min(Max(res.dependents, 0), 3)))

\* A required field that is absent (an empty form field counts as absent).
Absent(v) == v = Undefined \/ v = Str("")

\* C6: a request is rejected with status 400 exactly when filingStatus or
\* income is absent; with both present it yields a TaxResult, also for an
\* income of 0.
C6_RejectedIffRequiredAbsent ==
  pc = "sent" =>
    IF Absent(req.filingStatus) \/ Absent(req.income)
      THEN res.status = 400
      ELSE res.status = 200

Recognized == {"single", "married", "marriedSeparate", "headOfHousehold"}

\* C7: a request with a non-empty filing status outside the four names is
\* answered with the TaxResult of the same request filed as single.
C7_UnrecognizedFallsBackToSingle ==
  (pc = "sent" /\ ~MissingRequired(req) /\ req.filingStatus.s \notin Recognized) =>
    /\ res.status = 200
    /\ res = [TaxResult([req EXCEPT !.filingStatus = Str("single")])
                EXCEPT !.filingStatus = req.filingStatus.s]

\* The table of the standard deduction as the specification gives it.
TableDeduction(filingStatus) ==
  CASE filingStatus = "single"          -> 13850
    [] filingStatus = "married"         -> 27700
    [] filingStatus = "marriedSeparate" -> 13850
    [] filingStatus = "headOfHousehold" -> 20800

\* C8: in every accepted response the standard deduction is the table
\* value plus the senior supplement (1500 married, 1850 otherwise, from age
\* 65), the deduction used is max(itemized, standard) exactly when the
\* election flag is the string "false" and the standard deduction
\* otherwise, so it is never below the standard deduction, and the taxable
\* income is max(0, gross - deduction used), never negative.
C8_DeductionUsed ==
  Accepted =>
    /\ res.filingStatus \in Recognized =>
         res.standardDeduction =
           Dollars(TableDeduction(res.filingStatus)
                   + (IF res.age < 65 THEN 0
                      ELSE IF res.filingStatus = "married" THEN 1500 ELSE 1850))
    /\ res.deductionUsed =
         (IF req.useStandardDeduction = Str("false")
            THEN Max(res.itemizedDeductions, res.standardDeduction)
            ELSE res.standardDeduction)
    /\ res.deductionUsed >= res.standardDeduction
    /\ res.taxableIncome = Max(0, res.totalGrossIncome - res.deductionUsed)
    /\ res.taxableIncome >= 0

\* A senior married filer who itemizes more than the standard deduction,
\* and whose income exceeds it.
C8_Witness ==
  /\ Accepted
  /\ res.filingStatus = "married" /\ res.age >= 65
  /\ req.useStandardDeduction = Str("false")
  /\ res.deductionUsed = res.itemizedDeductions
  /\ res.deductionUsed > res.standardDeduction
  /\ res.taxableIncome > 0

\* C9: in every accepted response the primary income and the six
\* additional incomes are non-negative, the gross income is their sum, and
\* the self-employment tax and the withholding are non-negative.
C9_IncomesNonNegative ==
  Accepted =>
    /\ \A a \in {res.primary, res.w2, res.selfEmployment, res.interest,
                 res.dividends, res.capitalGains, res.other} : a >= 0
    /\ res.totalGrossIncome =
         res.primary + res.w2 + res.selfEmployment + res.interest
         + res.dividends + res.capitalGains + res.other
    /\ res.selfEmploymentTax >= 0
    /\ res.estimatedWithholding >= 0

(***************************************************************************)
(* calculateTax called on consecutive whole-dollar incomes (SpecTax).      *)
(***************************************************************************)
MaxDollars == 4      \* how many incomes in a row one walk covers
TaxStatuses == {"single", "married", "marriedSeparate", "headOfHousehold", "widowed"}
TaxDeductions == {0, 13850, 27700}

\* The finite upper bounds of the brackets of a filing status.
UpperBounds(filingStatus) ==
  LET brackets == BracketsFor(filingStatus)
  IN  {brackets[k].max : k \in {j \in DOMAIN brackets : ~brackets[j].unbounded}}

\* Walks start below the deduction and one dollar below each upper bound.
StartIncomes(filingStatus, deductions) ==
  {0} \cup {deductions + d :
              d \in {0 - 1, 0} \cup {u - 1 : u \in UpperBounds(filingStatus)}}

InitTax ==
  /\ tStatus \in TaxStatuses
  /\ tDeductions \in TaxDeductions
  /\ tIncome \in (StartIncomes(tStatus, tDeductions) \cap Nat)
  /\ tTax = 0
  /\ tSteps = 0

\* The first call of a walk.
CallTax ==
  /\ tSteps = 0
  /\ tTax' = calculateTax(tIncome, tStatus, tDeductions)
  /\ tSteps' = 1
  /\ UNCHANGED <<tIncome, tStatus, tDeductions>>

\* The call for the next dollar of income.
CallTaxNextDollar ==
  /\ tSteps >= 1 /\ tSteps < MaxDollars
  /\ tIncome' = tIncome + 1
  /\ tTax' = calculateTax(tIncome + 1, tStatus, tDeductions)
  /\ tSteps' = tSteps + 1
  /\ UNCHANGED <<tStatus, tDeductions>>

NextTax ==
  \/ CallTax /\ UNCHANGED <<serverVars, eitcVars, uiVars>>
  \/ CallTaxNextDollar /\ UNCHANGED <<serverVars, eitcVars, uiVars>>
InitTaxCalls == ServerIdle /\ InitTax /\ EitcIdle /\ UiIdle
SpecTax == InitTaxCalls /\ [][NextTax]_vars

\* The rate, in cents per dollar, of the bracket whose bounds hold the
\* taxable income t.
MarginalCents(filingStatus, t) ==
  LET brackets == BracketsFor(filingStatus)
      k == CHOOSE j \in DOMAIN brackets :
             brackets[j].min <= t /\ (brackets[j].unbounded \/ t <= brackets[j].max)
  IN  brackets[k].rate \div 10

\* C3: for every filing status, deduction and whole-dollar income the tax
\* is non-negative and is 0 when income <= deductions, and one more dollar
\* of income never lowers it and raises it by at most that dollar at the
\* marginal rate of the bracket reached, hence by at most 37 cents, also
\* across a bracket boundary.
C3_TaxMonotoneAndContinuous ==
  /\ [](tSteps >= 1 => tTax >= 0 /\ (tIncome <= tDeductions => tTax = 0))
  /\ [][(tSteps >= 1 /\ tIncome' = tIncome + 1) =>
          /\ tTax' >= tTax
          /\ tTax' - tTax <= MarginalCents(tStatus, Max(0, tIncome' - tDeductions))
          /\ tTax' - tTax <= 37]_vars

\* A walk of a single filer has crossed the end of the 10% bracket: taxable
\* income 11002, taxed 1100.22.
C3_Witness ==
  /\ tSteps >= 2 /\ tStatus = "single"
  /\ tIncome - tDeductions = 11002
  /\ tTax = 110022

(***************************************************************************)
(* calculateEITC called around the income ceilings (SpecEitc).             *)
(***************************************************************************)
MaxChildren == 4     \* child counts -1 .. MaxChildren are tried
Reach == 2           \* incomes up to Reach dollars on each side of a ceiling
EitcStatuses == {"single", "married", "marriedSeparate", "headOfHousehold", "widowed"}
Ceilings ==
  UNION {{eitcLimits[c].single, eitcLimits[c].married} : c \in DOMAIN eitcLimits}
EitcIncomes ==
  {0 - 500, 0} \cup {c + d : c \in Ceilings, d \in (0 - Reach)..Reach}

InitEitc ==
  /\ eStatus \in EitcStatuses
  /\ eChildren \in (0 - 1)..MaxChildren
  /\ eIncome \in EitcIncomes
  /\ eCredit = 0
  /\ eCalled = FALSE

CallEITC ==
  /\ ~eCalled
  /\ eCredit' = calculateEITC(eIncome, eStatus, eChildren)
  /\ eCalled' = TRUE
  /\ UNCHANGED <<eIncome, eStatus, eChildren>>

NextEitc == CallEITC /\ UNCHANGED <<serverVars, taxVars, uiVars>>
InitEitcCalls == ServerIdle /\ TaxIdle /\ InitEitc /\ UiIdle
SpecEitc == InitEitcCalls /\ [][NextEitc]_vars

\* The table of the credit as the specification gives it:
\* <<singleCeiling, marriedCeiling, credit>> per child count.
EitcRow(c) ==
  CASE c = 0 -> <<17640, 23260, 600>>
    [] c = 1 -> <<46560, 52918, 3995>>
    [] c = 2 -> <<51567, 58250, 6604>>
    [] c = 3 -> <<55529, 62044, 7430>>

\* C5: for each child count 0..3 the credit is the row's credit when the
\* income is at most the applicable ceiling (the married ceiling for status
\* married, the single ceiling for every other status) and 0 above it.
C5_EitcStepFunction ==
  (eCalled /\ eChildren \in 0..3) =>
    LET row == EitcRow(eChildren)
        ceiling == IF eStatus = "married" THEN row[2] ELSE row[1]
    IN  eCredit = IF eIncome <= ceiling THEN row[3] ELSE 0

\* One dollar above the married ceiling for two children: no credit, while
\* a filer of any other status lost it at the lower single ceiling.
C5_Witness ==
  /\ eCalled /\ eChildren = 2 /\ eStatus = "married"
  /\ eIncome = 58251 /\ eCredit = 0

(***************************************************************************)
(* The form component (SpecUi, and LiveUi with fairness).                  *)
(***************************************************************************)
MaxCalls == 2        \* invocations of calculateTax that may be unfinished

FilingStatusOptions == {"single", "married", "marriedSeparate", "headOfHousehold"}
FieldValues(name) ==
  CASE name = "filingStatus" -> FilingStatusOptions
    [] name = "income"       -> {"", "50000"}
    [] name = "age"          -> {"", "65"}
    [] name = "dependents"   -> {"0", "2"}

\* handleInputChange: one field of formData takes the value typed.
handleInputChange(name, value) ==
  /\ formData' = [formData EXCEPT ![name] = value]
  /\ UNCHANGED <<result, loading, error, calls>>

\* JSON.stringify(formData) as the server's req.body.
RequestOf(fd) ==
  [filingStatus |-> Str(fd.filingStatus),
   income |-> Str(fd.income),
   age |-> Str(fd.age),
   dependents |-> Str(fd.dependents),
   itemizedDeductions |-> Undefined,
   useStandardDeduction |-> Undefined,
   w2Income |-> Undefined,
   selfEmploymentIncome |-> Undefined,
   interestIncome |-> Undefined,
   dividendIncome |-> Undefined,
   capitalGains |-> Undefined,
   otherIncome |-> Undefined]

\* What the handler answers to a request body.
ServerResponse(b) ==
  IF MissingRequired(b) THEN ValidationError
  ELSE IF calculateTaxThrows(b.filingStatus.s) THEN InternalError
  ELSE TaxResult(b)

\* The button never disabled.
SubmitEnabled_Always == TRUE

\* The submit button is disabled while loading.
SubmitEnabled == ~loading

\* The form is submitted only with its required fields filled in.
FormValid == formData.filingStatus # "" /\ formData.income # ""

\* calculateTax up to its first await: setLoading(true), setError(''), and
\* the request is sent.
Submit ==
  /\ SubmitEnabled
  /\ FormValid
  /\ Len(calls) < MaxCalls
  /\ loading' = TRUE
  /\ error' = ""
  /\ calls' = Append(calls, [at |-> "fetch", body |-> RequestOf(formData),
                             response |-> NoResponse, before |-> result])
  /\ UNCHANGED <<formData, result>>

Remove(seq, i) == SubSeq(seq, 1, i - 1) \o SubSeq(seq, i + 1, Len(seq))

\* err.message || 'An error occurred during calculation'
MessageOf(message) ==
  IF message = "" THEN "An error occurred during calculation" ELSE message

\* The catch block and the finally block.
Caught(i, message) ==
  /\ error' = MessageOf(message)
  /\ loading' = FALSE
  /\ calls' = Remove(calls, i)
  /\ UNCHANGED <<formData, result>>

\* fetch rejects: the network failed.
FetchRejects(i) ==
  /\ calls[i].at = "fetch"
  /\ \E message \in {"", "Failed to fetch"} : Caught(i, message)

\* fetch resolves with a response that is not OK: the handler's own error
\* response, or an error status from anything in front of it.
FetchResolvesNotOk(i) ==
  /\ calls[i].at = "fetch"
  /\ \E r \in {ServerResponse(calls[i].body), InternalError} :
       /\ r.status # 200
       /\ Caught(i, "Tax calculation failed")

\* fetch resolves with an OK response; response.json() is awaited.
FetchResolvesOk(i) ==
  /\ calls[i].at = "fetch"
  /\ ServerResponse(calls[i].body).status = 200
  /\ calls' = [calls EXCEPT ![i].at = "json",
                            ![i].response = ServerResponse(calls[i].body)]
  /\ UNCHANGED <<formData, result, loading, error>>

\* response.json() resolves: setResult(data), then the finally block.
JsonResolves(i) ==
  /\ calls[i].at = "json"
  /\ result' = calls[i].response
  /\ loading' = FALSE
  /\ calls' = Remove(calls, i)
  /\ UNCHANGED <<formData, error>>

\* response.json() rejects: the body was not read or was not JSON.
JsonRejects(i) ==
  /\ calls[i].at = "json"
  /\ \E message \in {"", "Unexpected end of JSON input"} : Caught(i, message)

\* Some pending promise of some invocation settles.
Settle ==
  /\ \E i \in DOMAIN calls :
       \/ FetchRejects(i)
       \/ FetchResolvesNotOk(i)
       \/ FetchResolvesOk(i)
       \/ JsonResolves(i)
       \/ JsonRejects(i)
  /\ UNCHANGED <<serverVars, taxVars, eitcVars>>

NextUi ==
  \/ (\E name \in {"filingStatus", "income", "age", "dependents"} :
        \E value \in FieldValues(name) : handleInputChange(name, value))
       /\ UNCHANGED <<serverVars, taxVars, eitcVars>>
  \/ Submit /\ UNCHANGED <<serverVars, taxVars, eitcVars>>
  \/ (\E i \in DOMAIN calls : FetchRejects(i))
       /\ UNCHANGED <<serverVars, taxVars, eitcVars>>
  \/ (\E i \in DOMAIN calls : FetchResolvesNotOk(i))
       /\ UNCHANGED <<serverVars, taxVars, eitcVars>>
  \/ (\E i \in DOMAIN calls : FetchResolvesOk(i))
       /\ UNCHANGED <<serverVars, taxVars, eitcVars>>
  \/ (\E i \in DOMAIN calls : JsonResolves(i))
       /\ UNCHANGED <<serverVars, taxVars, eitcVars>>
  \/ (\E i \in DOMAIN calls : JsonRejects(i))
       /\ UNCHANGED <<serverVars, taxVars, eitcVars>>

SpecUi == Init /\ [][NextUi]_vars

\* A pending promise is settled in the end: the browser ends every request
\* with a response or a failure, and the body of a response read or failed.
LiveUi == Init /\ [][NextUi]_vars /\ WF_vars(Settle)

\* C10: a submit sets loading and clears error as it sends the request;
\* loading returns to false in the end; when it does, either result is the
\* response body and error is still empty, or error is a non-empty message
\* and result is what it was before the submit; and no second request is
\* sent while loading, so at most one is in flight.
C10_SubmitCycle ==
  /\ [][Len(calls') > Len(calls) =>
          /\ loading' /\ error' = ""
          /\ calls'[Len(calls')].at = "fetch"
          /\ calls'[Len(calls')].body = RequestOf(formData)]_vars
  /\ [](Len(calls) <= 1 /\ (loading <=> Len(calls) = 1))
  /\ [][(loading /\ ~loading') =>
          \/ /\ calls[1].at = "json"
             /\ result' = calls[1].response /\ result'.status = 200
             /\ error' = "" /\ error = ""
          \/ /\ error' # ""
             /\ result' = calls[1].before /\ result' = result]_vars
  /\ (loading ~> ~loading)

\* After a first result, a second submit has failed: the error is shown and
\* the first result is still there.
C10_Witness ==
  /\ ~loading /\ calls = << >>
  /\ error = "Tax calculation failed"
  /\ result.status = 200

====
